---- MODULE Spec2Model ----
(***************************************************************************)
(* Retrieval core of EverMemOS: the V3 controller endpoint                 *)
(* retrieve_lightweight (agentic_v3_controller.py) and the MemoryManager   *)
(* pipeline it awaits (normalise, dispatch fetchers by mode, fuse,         *)
(* deduplicate, truncate, enrich).  The controller is translated from its  *)
(* source; memory_manager.py is not among the sources, so the pipeline     *)
(* behind self.memory_manager.retrieve_lightweight follows spec.md 4-7.    *)
(***************************************************************************)
EXTENDS Integers, Sequences, FiniteSets, TLC

\* ------------------------------------------------------------------ bounds
\* longest candidate list a fetcher returns in the model
MaxList == 3
\* largest explicit top_k a request carries in the model
MaxTopK == 2
\* retrieval requests handled at the same time
NumRequests == 2
\* RefreshTask objects created during a run
MaxTasks == 2
\* callers of stop_refresh during a run
NumStoppers == 1
\* refresh failures in a row that are followed
MaxErrors == 1
\* HTTP requests that pass through the metrics middleware
NumHttpRequests == 2
\* largest experiment_config.max_retries tried
MaxRetries == 3
\* question-answer pairs of one evaluation run
NumQa == 5
\* permits of the semaphore of the run: 50 in the source, scaled down with
\* CHUNK_SIZE so that a chunk still holds more tasks than there are permits
MAX_CONCURRENT == 2
\* tasks gathered at a time: 200 in the source
CHUNK_SIZE == 3

\* ------------------------------------------------------- program constants
\* request_data.get("top_k", 20)
DefaultTopK == 20
\* request_data.get("time_range_days", 365)
DefaultTimeRangeDays == 365
\* RRF smoothing constant k (spec.md 4.5)
RRF_K == 60
\* candidate pool: top_k times PoolMultiplier, at most PoolCap (spec.md 4.3)
PoolMultiplier == 3
PoolCap == 200
\* backend calls one fetcher makes in one request: the first attempt and one
\* retry (spec.md 5)
MaxAttempts == 2

\* --------------------------------------------------------------- universe
\* record ids; IdOrd is their lexical order
Ids == {"A", "B", "C", "D"}

\* records of the reference store behind the two indexes
StoreIds == {"E", "F", "G", "H", "I", "J", "K", "L"}

IdOrd(id) ==
  CASE id = "A" -> 1 [] id = "B" -> 2 [] id = "C" -> 3 [] id = "D" -> 4
    [] id = "E" -> 5 [] id = "F" -> 6 [] id = "G" -> 7 [] id = "H" -> 8
    [] id = "I" -> 9 [] id = "J" -> 10 [] id = "K" -> 11 [] id = "L" -> 12

\* a JSON field: <<>> when the key is missing, <<v>> when it is present
Absent == <<>>

Some(v) == <<v>>

Min(a, b) == IF a <= b THEN a ELSE b

\* ranked lists of distinct ids
DistinctLists ==
  {l \in UNION {[1..n -> Ids] : n \in 0..MaxList} :
     \A i, j \in 1..Len(l) : l[i] = l[j] => i = j}

\* the candidate lists a fetcher returns in the model: ids in rank order,
\* distinct, or with the best hit returned once more at the end (a
\* fetcher-level duplicate id)
CandidateLists ==
  DistinctLists
    \cup {Append(l, l[1]) : l \in {d \in DistinctLists : Len(d) \in {1, 2}}}

FailureKinds == {"BackendUnavailable", "Timeout"}

QueryVals == {Absent, Some(""), Some("q")}

TopKVals == {Absent} \cup {Some(n) : n \in (0 - 1)..MaxTopK}

ModeVals == {Absent, Some("embedding"), Some("bm25"), Some("rrf")}

\* lines 270-277: the documented values of data_source and memory_scope
RecognizedSources == {"memcell", "event_log", "semantic_memory"}

RecognizedScopes == {"all", "personal", "group"}

\* request bodies: the query with top_k, mode, source, scope and time range
\* stated; the query alone; and bodies whose data_source or memory_scope is
\* no documented value
Bodies ==
  [query : QueryVals, top_k : TopKVals \ {Absent},
   retrieval_mode : ModeVals \ {Absent}, data_source : {Some("memcell")},
   memory_scope : {Some("all")}, user_id : {Absent}, group_id : {Absent},
   time_range_days : {Some(DefaultTimeRangeDays)}]
    \cup [query : QueryVals, top_k : {Absent}, retrieval_mode : {Absent},
          data_source : {Absent}, memory_scope : {Absent}, user_id : {Absent},
          group_id : {Absent}, time_range_days : {Absent}]
    \cup {b \in [query : {Some("q")}, top_k : {Absent},
                 retrieval_mode : {Some("rrf")},
                 data_source : {Some("memcell"), Some("archive")},
                 memory_scope : {Some("all"), Some("everyone")},
                 user_id : {Absent}, group_id : {Absent},
                 time_range_days : {Absent}] :
            \/ b.data_source[1] \notin RecognizedSources
            \/ b.memory_scope[1] \notin RecognizedScopes}

\* ------------------------------------------------------------ controller
\* dict.get(key, default)
Get(field, default) == IF field = Absent THEN default ELSE field[1]

\* lines 314-321: the handler's locals (query is None when missing)
ParseQuery(b) == b.query

ParseUserId(b) == b.user_id

ParseGroupId(b) == b.group_id

\* faulty variant: the time range defaults to a month
ParseTimeRangeDaysWrongDefault(b) == Get(b.time_range_days, 30)

ParseTimeRangeDays(b) == Get(b.time_range_days, DefaultTimeRangeDays)

ParseTopK(b) == Get(b.top_k, DefaultTopK)

\* faulty variant: the mode is read under a key the body never has, so the
\* default always wins
ParseRetrievalModeWrongKey(b) == "rrf"

\* faulty variant: the mode defaults to embedding
ParseRetrievalModeWrongDefault(b) == Get(b.retrieval_mode, "embedding")

ParseRetrievalMode(b) == Get(b.retrieval_mode, "rrf")

ParseDataSource(b) == Get(b.data_source, "memcell")

\* faulty variant: the scope is read under a key the body never has
ParseMemoryScopeWrongKey(b) == "all"

\* faulty variant: the scope defaults to personal
ParseMemoryScopeWrongDefault(b) == Get(b.memory_scope, "personal")

ParseMemoryScope(b) == Get(b.memory_scope, "all")

\* faulty variant: only a missing query is refused, "" is let through
QueryIsNone(q) == q = Absent

\* line 323: `if not query` -- None and "" are both falsy
QueryMissing(q) == IF q = Absent THEN TRUE ELSE q[1] = ""

NoResult ==
  [memories |-> <<>>, count |-> 0,
   metadata |-> [retrieval_mode |-> "", embedding_candidates |-> 0,
                 bm25_candidates |-> 0, final_count |-> 0,
                 degraded |-> FALSE, failed_origin |-> ""]]

NoResponse == [status |-> "none", http |-> 0, detail |-> "", result |-> NoResult]

NoException == [type |-> "", msg |-> "", code |-> 0]

ValueError(msg) == [type |-> "ValueError", msg |-> msg, code |-> 0]

\* fastapi.HTTPException(status_code, detail)
HTTPException(code, msg) == [type |-> "HTTPException", msg |-> msg, code |-> code]

\* any other exception class
OtherError(type) == [type |-> type, msg |-> type, code |-> 0]

FetcherError(kind) == OtherError(kind)

\* faulty variant: the response carries the memories without the manager's
\* metadata
OkResponseNoMetadata(result) ==
  [status |-> "ok", http |-> 200, detail |-> "retrieved",
   result |-> [result EXCEPT !.metadata = NoResult.metadata]]

\* lines 344-348: the unified ok response around the manager's result
OkResponse(result) ==
  [status |-> "ok", http |-> 200, detail |-> "retrieved", result |-> result]

\* faulty variant: an exception that is no ValueError is swallowed and an
\* empty result returned
ExceptionResponseSwallowed(exc) ==
  IF exc.type = "ValueError"
  THEN [status |-> "error", http |-> 400, detail |-> exc.msg, result |-> NoResult]
  ELSE OkResponse(NoResult)

\* faulty variant: no except clause for ValueError, every exception is a 500
ExceptionResponseAll500(exc) ==
  [status |-> "error", http |-> 500, detail |-> "retrieve failed, retry later",
   result |-> NoResult]

\* faulty variant: no except clause re-raises an HTTPException, it ends as the
\* generic 500
ExceptionResponseHttpAs500(exc) ==
  IF exc.type = "ValueError"
  THEN [status |-> "error", http |-> 400, detail |-> exc.msg, result |-> NoResult]
  ELSE [status |-> "error", http |-> 500, detail |-> "retrieve failed, retry later",
        result |-> NoResult]

\* lines 350-359: ValueError -> 400 with str(e); an HTTPException is re-raised
\* as it is; anything else -> 500 with the fixed message
ExceptionResponse(exc) ==
  IF exc.type = "ValueError"
  THEN [status |-> "error", http |-> 400, detail |-> exc.msg, result |-> NoResult]
  ELSE IF exc.type = "HTTPException"
  THEN [status |-> "error", http |-> exc.code, detail |-> exc.msg, result |-> NoResult]
  ELSE [status |-> "error", http |-> 500, detail |-> "retrieve failed, retry later",
        result |-> NoResult]


\* ------------------------------------------- manager pipeline (spec.md 4-5)
\* 4.1: which fetchers a retrieval mode dispatches
UsesVector(mode) == mode \in {"embedding", "rrf"}

UsesLexical(mode) == mode \in {"bm25", "rrf"}

\* 3, 7: top_k must be positive
TopKInvalid(k) == k <= 0

\* 4.3/4.4: raw_score of the hit at a rank; each source has its own scale and
\* the score falls strictly as the rank grows
RawScore(origin, rank) ==
  IF origin = "vector" THEN 100 - 10 * rank ELSE 40 - 3 * rank

\* ---- the reference store: each record's data source, partition, owner,
\* group and timestamp (in days relative to now), and the order in which each
\* index ranks the records for the query
SourceOf(id) ==
  CASE id \in {"E", "F", "G", "H"} -> "memcell"
    [] id \in {"I", "J"} -> "event_log"
    [] OTHER -> "semantic_memory"

PartitionOf(id) == IF id \in {"E", "G", "I", "K"} THEN "personal" ELSE "group"

UserOf(id) == IF id \in {"E", "F", "I", "L"} THEN "u1" ELSE "u2"

GroupOf(id) ==
  IF PartitionOf(id) = "personal" THEN ""
  ELSE IF id \in {"F", "J"} THEN "g1" ELSE "g2"

TimestampOf(id) ==
  CASE id = "G" -> 0 - DefaultTimeRangeDays
    [] id \in {"H", "L"} -> 0 - (DefaultTimeRangeDays + 35)
    [] OTHER -> 0 - 10

\* the records out of the default time range are the best matches
VecOrder == <<"H", "L", "G", "J", "F", "K", "E", "I">>

\* K has no term of the query
LexOrder == <<"L", "E", "H", "I", "F", "J", "G">>

\* 4.2, 7: a data_source or memory_scope that is no recognized value
ConfigInvalid(source, scope) ==
  source \notin RecognizedSources \/ scope \notin RecognizedScopes

\* 4.2: the partitions to search -- both of the data source for scope all,
\* the named one otherwise
ScopePartitions(source, scope) ==
  {<<source, p>> : p \in (IF scope = "all" THEN {"personal", "group"} ELSE {scope})}

NoFilter == [partitions |-> {}, user_id |-> Absent, group_id |-> Absent, since |-> 0]

\* 4.2: the partition-filter descriptor both fetchers receive
Descriptor(r) ==
  [partitions |-> ScopePartitions(r.data_source, r.memory_scope),
   user_id |-> r.user_id, group_id |-> r.group_id,
   since |-> 0 - r.time_range_days]

\* 4.3/4.4: a record passes the descriptor
Matches(id, f) ==
  /\ <<SourceOf(id), PartitionOf(id)>> \in f.partitions
  /\ IF f.user_id = Absent THEN TRUE ELSE UserOf(id) = f.user_id[1]
  /\ IF f.group_id = Absent THEN TRUE ELSE GroupOf(id) = f.group_id[1]
  /\ TimestampOf(id) >= f.since

\* 4.3: candidate pool size min(3 * top_k, 200)
PoolSize(k) == Min(PoolMultiplier * k, PoolCap)

\* 4.3/4.4: an index returns the records that pass the descriptor, best
\* first, at most limit of them
IndexSearch(order, f, limit) ==
  LET found == SelectSeq(order, LAMBDA id : Matches(id, f))
  IN SubSeq(found, 1, Min(limit, Len(found)))

VectorSearch(f, limit) == IndexSearch(VecOrder, f, limit)

LexicalSearch(f, limit) == IndexSearch(LexOrder, f, limit)

\* the longest list a fetcher can return
MaxSourceSize ==
  LET sizes == {Cardinality({id \in StoreIds : SourceOf(id) = src}) :
                  src \in RecognizedSources}
  IN CHOOSE n \in sizes : \A m \in sizes : m <= n

MaxRank == IF MaxList > MaxSourceSize THEN MaxList ELSE MaxSourceSize

\* common denominator of 1/(k + rank) for the ranks of the model, so that
\* fused scores are exact integers
RECURSIVE RankProduct(_)
RankProduct(n) == IF n = 0 THEN 1 ELSE (RRF_K + n) * RankProduct(n - 1)

ScoreScale == RankProduct(MaxRank)

\* 4.5: one list's contribution 1/(k + source_rank), times ScoreScale
RrfTerm(rank) == IF rank = 0 THEN 0 ELSE ScoreScale \div (RRF_K + rank)

\* source_rank of id in a list: its first (best) position, 0 when absent
RankIn(list, id) ==
  IF \E i \in 1..Len(list) : list[i] = id
  THEN CHOOSE i \in 1..Len(list) :
         list[i] = id /\ \A j \in 1..(i - 1) : list[j] # id
  ELSE 0

FusedScore(id, l1, l2) == RrfTerm(RankIn(l1, id)) + RrfTerm(RankIn(l2, id))

MinRank(id, l1, l2) ==
  IF RankIn(l1, id) = 0 THEN RankIn(l2, id)
  ELSE IF RankIn(l2, id) = 0 THEN RankIn(l1, id)
  ELSE Min(RankIn(l1, id), RankIn(l2, id))

\* faulty variant: ties on score and rank are left in arrival order
BetterNoIdTieBreak(a, b) ==
  \/ a.score > b.score
  \/ a.score = b.score /\ a.minrank < b.minrank

\* 4.5: the fused order -- higher fused_score, then smaller minimum
\* source_rank, then record_id in lexical order
Better(a, b) ==
  \/ a.score > b.score
  \/ /\ a.score = b.score
     /\ \/ a.minrank < b.minrank
        \/ a.minrank = b.minrank /\ IdOrd(a.id) < IdOrd(b.id)

\* stable insertion sort by Better
RECURSIVE InsertHit(_, _)
InsertHit(h, s) ==
  IF s = <<>> THEN <<h>>
  ELSE IF Better(h, Head(s)) THEN <<h>> \o s
  ELSE <<Head(s)>> \o InsertHit(h, Tail(s))

RECURSIVE SortHits(_)
SortHits(s) ==
  IF s = <<>> THEN <<>>
  ELSE InsertHit(s[Len(s)], SortHits(SubSeq(s, 1, Len(s) - 1)))

\* ids of a sequence in order of first appearance
RECURSIVE FirstSeen(_, _)
FirstSeen(s, seen) ==
  IF s = <<>> THEN <<>>
  ELSE IF Head(s) \in seen THEN FirstSeen(Tail(s), seen)
  ELSE <<Head(s)>> \o FirstSeen(Tail(s), seen \cup {Head(s)})

\* 4.5, rrf: every id of either list scored and sorted; l1 is the list that
\* arrived first, l2 the one that arrived second
RrfFuse(l1, l2) ==
  LET ids == FirstSeen(l1 \o l2, {})
  IN SortHits([i \in 1..Len(ids) |->
               [id |-> ids[i],
                score |-> FusedScore(ids[i], l1, l2),
                minrank |-> MinRank(ids[i], l1, l2)]])

\* 4.5, single source: the list passes through with fused_score = raw_score
PassThrough(origin, list) ==
  [i \in 1..Len(list) |->
     [id |-> list[i], score |-> RawScore(origin, i), minrank |-> i]]

\* faulty variant: no deduplication
DedupHitsSkipped(s, seen) == s

\* 4.6: keep the first hit of each record_id
RECURSIVE DedupHits(_, _)
DedupHits(s, seen) ==
  IF s = <<>> THEN <<>>
  ELSE IF Head(s).id \in seen THEN DedupHits(Tail(s), seen)
  ELSE <<Head(s)>> \o DedupHits(Tail(s), seen \cup {Head(s).id})

\* 4.6: truncate to top_k
Truncate(s, k) == SubSeq(s, 1, Min(k, Len(s)))

\* 4.6: a record the document store cannot resolve is dropped
Enrich(s, missing) == SelectSeq(s, LAMBDA h : h.id \notin missing)

\* 6: an entry of result.memories
Memory(h) == [record_id |-> h.id, score |-> h.score]

\* ------------------------------------------------------------------ state
VARIABLES
  pc,        \* where the handler is: idle, fetching, enriching, done, cancelled
  body,      \* the JSON body of the request being handled
  req,       \* the keyword arguments the controller gave the manager
  vec,       \* the Vector Fetcher of this request: state, list, error kind
  lex,       \* the Lexical Fetcher of this request
  arrival,   \* origins of the fetches in the order they finished
  fused,     \* output of the Rank Fusion Engine
  hits,      \* fused list after deduplication and truncation to top_k
  degraded,  \* origin that failed in a degraded rrf request, "" otherwise
  raised,    \* the exception the handler's try block raised, if any
  resp,      \* what the caller receives
  calls,     \* collaborator call counts of this request
  unresolved \* record ids the document store could not resolve

vars ==
  <<pc, body, req, vec, lex, arrival, fused, hits, degraded, raised, resp,
    calls, unresolved>>

\* ---- several requests at once: one controller, one invocation of the
\* handler per request
VARIABLES
  sent,      \* per request: the JSON body its caller sent
  frames,    \* the locals of each running invocation of the handler
  backend,   \* per request: how each backend answered that request's fetch
  answer,    \* per request: the response its caller received
  overlap    \* a request arrived while another one was being handled

pairVars == <<sent, frames, backend, answer, overlap>>

\* ---- gauges that refresh themselves (core/observation/metrics/gauge.py)
VARIABLES
  tasks,      \* the RefreshTask objects: _running, _task, its loop, _error_count
  registry,   \* BaseGauge._refresh_tasks: label key -> RefreshTask
  stops,      \* per task: the stop() that start_refresh scheduled in the background
  stoppers,   \* the coroutines that call stop_refresh
  gauge,      \* per label key: the value of the labelled gauge
  lastSetBy,  \* per label key: the task whose loop set the gauge last
  lastCall    \* per label key: the call that completed last

gaugeVars == <<tasks, registry, stops, stoppers, gauge, lastSetBy, lastCall>>

\* ---- HTTP metrics (core/middleware/prometheus_middleware.py)
VARIABLES
  dispatches,     \* per request: where its dispatch() is and what it did
  requestsTotal,  \* http_requests_total: (path, status) -> count
  durations,      \* http_request_duration_seconds: path -> observations
  requestSizes    \* http_request_size_bytes: path -> observations

mwVars == <<dispatches, requestsTotal, durations, requestSizes>>

\* ---- answer generation of the evaluation (stage4_response.py)
VARIABLES
  gen   \* one call of locomo_response: its position, i, result, the outcomes
        \* of its calls of llm_provider.generate

genVars == <<gen>>

\* ---- the evaluation run over all question-answer pairs (main)
VARIABLES
  qa,            \* per task of all_tasks: created, queued, running, returned, raised
  mainLoop,      \* the chunk loop of main: position, chunk_start, completed, failed
  allResponses   \* all_responses: group_id -> the results appended

runVars == <<qa, mainLoop, allResponses>>

\* ---- state of the other components, which no step of the retrieval
\* handler touches
outside == <<pairVars, gaugeVars, mwVars, genVars, runVars>>

exceptPair == <<vars, gaugeVars, mwVars, genVars, runVars>>

exceptGauge == <<vars, pairVars, mwVars, genVars, runVars>>

exceptMw == <<vars, pairVars, gaugeVars, genVars, runVars>>

exceptGen == <<vars, pairVars, gaugeVars, mwVars, runVars>>

exceptRun == <<vars, pairVars, gaugeVars, mwVars, genVars>>

NoBody ==
  [query |-> Absent, top_k |-> Absent, retrieval_mode |-> Absent,
   data_source |-> Absent, memory_scope |-> Absent, user_id |-> Absent,
   group_id |-> Absent, time_range_days |-> Absent]

NoRequest ==
  [query |-> "", user_id |-> Absent, group_id |-> Absent, time_range_days |-> 0,
   top_k |-> 0, retrieval_mode |-> "", data_source |-> "", memory_scope |-> ""]

FetcherIdle ==
  [st |-> "idle", list |-> <<>>, err |-> "", filter |-> NoFilter, limit |-> 0,
   attempts |-> 0]

NoCalls ==
  [manager |-> 0, embedding |-> 0, vector |-> 0, lexical |-> 0, docstore |-> 0]

Requests == 1..NumRequests

NoFrame ==
  [req |-> NoRequest, vec |-> [st |-> "idle", list |-> <<>>],
   lex |-> [st |-> "idle", list |-> <<>>]]

PairInit ==
  /\ sent = [r \in Requests |-> NoBody]
  /\ frames = [r \in Requests |-> NoFrame]
  /\ backend = [r \in Requests |-> [vector |-> "idle", lexical |-> "idle"]]
  /\ answer = [r \in Requests |-> NoResponse]
  /\ overlap = FALSE

LabelKeys == {"a", "b"}

\* what refresh() returns when it succeeds
GaugeValues == {1, 2}

TaskIds == 1..MaxTasks

NoTask == 0

Stoppers == 1..NumStoppers

\* a task identifier not yet given to a RefreshTask
NotCreated ==
  [key |-> "", running |-> FALSE, handle |-> FALSE, loop |-> "none",
   errors |-> 0, stopped |-> FALSE]

GaugeInit ==
  /\ tasks = [t \in TaskIds |-> NotCreated]
  /\ registry = [k \in LabelKeys |-> NoTask]
  /\ stops = [t \in TaskIds |-> "none"]
  /\ stoppers = [c \in Stoppers |-> [pc |-> "idle", key |-> "", task |-> NoTask]]
  /\ gauge = [k \in LabelKeys |-> 0]
  /\ lastSetBy = [k \in LabelKeys |-> NoTask]
  /\ lastCall = [k \in LabelKeys |-> "none"]

HttpRequests == 1..NumHttpRequests

SKIP_PATHS == {"/metrics", "/health", "/healthz", "/ready", "/favicon.ico"}

\* request paths: one that is skipped, one with a numeric identifier, one
\* plain
HttpPaths == {"/health", "/api/v1/users/123", "/api/v1/search"}

\* _normalize_path: identifiers in the path are replaced by {id}
NormalizePath(path) ==
  IF path = "/api/v1/users/123" THEN "/api/v1/users/{id}" ELSE path

NormalizedPaths == {NormalizePath(p) : p \in HttpPaths}

\* status codes the handler answers with
StatusCodes == {200, 404}

DigitChars == <<"0", "1", "2", "3", "4", "5", "6", "7", "8", "9">>

\* str() of a natural number
RECURSIVE Str(_)
Str(n) ==
  IF n < 10 THEN DigitChars[n + 1]
  ELSE Str(n \div 10) \o DigitChars[(n % 10) + 1]

StatusLabels == {Str(c) : c \in StatusCodes} \cup {"500"}

\* values of the content-length header, as sequences of characters: none,
\* empty, a number, not a number
ContentLengths == {Absent, Some(<<>>), Some(<<"1", "2">>), Some(<<"a", "b">>)}

\* int() accepts the characters
IsInteger(chars) ==
  /\ chars # <<>>
  /\ \A i \in 1..Len(chars) : \E d \in 1..10 : DigitChars[d] = chars[i]

NoDispatch ==
  [pc |-> "idle", path |-> "", cl |-> Absent, status |-> "",
   incs |-> <<>>, observed |-> 0, outcome |-> "", code |-> 0]

MwInit ==
  /\ dispatches = [r \in HttpRequests |-> NoDispatch]
  /\ requestsTotal = [l \in NormalizedPaths \X StatusLabels |-> 0]
  /\ durations = [p \in NormalizedPaths |-> 0]
  /\ requestSizes = [p \in NormalizedPaths |-> 0]

\* before locomo_response is called: result is not bound
NoGeneration ==
  [pc |-> "idle", max_retries |-> 0, i |-> 0, result |-> Absent,
   outcomes |-> <<>>]

GenInit == gen = NoGeneration

\* all_tasks, in the order the coroutines were created
QaTasks == 1..NumQa

GroupIds == {"locomo_exp_user_0", "locomo_exp_user_1"}

\* the group_id a task was created with: the tasks of the first
\* conversation come first in all_tasks
TaskGroupId(t) ==
  IF 2 * t <= NumQa + 1 THEN "locomo_exp_user_0" ELSE "locomo_exp_user_1"

RunInit ==
  /\ qa = [t \in QaTasks |-> "created"]
  /\ mainLoop = [pc |-> "start", chunk_start |-> 0, completed |-> 0, failed |-> 0]
  /\ allResponses = [g \in GroupIds |-> <<>>]

Init ==
  /\ PairInit
  /\ GaugeInit
  /\ MwInit
  /\ GenInit
  /\ RunInit
  /\ pc = "idle"
  /\ body = NoBody
  /\ req = NoRequest
  /\ vec = FetcherIdle
  /\ lex = FetcherIdle
  /\ arrival = <<>>
  /\ fused = <<>>
  /\ hits = <<>>
  /\ degraded = ""
  /\ raised = NoException
  /\ resp = NoResponse
  /\ calls = NoCalls
  /\ unresolved = {}

\* faulty variant: top_k is not passed on, the manager uses its default
ManagerArgsNoTopK(b) ==
  [query |-> ParseQuery(b)[1],
   user_id |-> ParseUserId(b),
   group_id |-> ParseGroupId(b),
   time_range_days |-> ParseTimeRangeDays(b),
   top_k |-> DefaultTopK,
   retrieval_mode |-> ParseRetrievalMode(b),
   data_source |-> ParseDataSource(b),
   memory_scope |-> ParseMemoryScope(b)]

\* faulty variant: retrieval_mode is not passed on, the manager uses its
\* default
ManagerArgsNoMode(b) ==
  [query |-> ParseQuery(b)[1],
   user_id |-> ParseUserId(b),
   group_id |-> ParseGroupId(b),
   time_range_days |-> ParseTimeRangeDays(b),
   top_k |-> ParseTopK(b),
   retrieval_mode |-> "rrf",
   data_source |-> ParseDataSource(b),
   memory_scope |-> ParseMemoryScope(b)]

\* faulty variant: memory_scope is not passed on
ManagerArgsNoScope(b) ==
  [query |-> ParseQuery(b)[1],
   user_id |-> ParseUserId(b),
   group_id |-> ParseGroupId(b),
   time_range_days |-> ParseTimeRangeDays(b),
   top_k |-> ParseTopK(b),
   retrieval_mode |-> ParseRetrievalMode(b),
   data_source |-> ParseDataSource(b),
   memory_scope |-> "all"]

\* faulty variant: time_range_days is not passed on
ManagerArgsNoTimeRange(b) ==
  [query |-> ParseQuery(b)[1],
   user_id |-> ParseUserId(b),
   group_id |-> ParseGroupId(b),
   time_range_days |-> DefaultTimeRangeDays,
   top_k |-> ParseTopK(b),
   retrieval_mode |-> ParseRetrievalMode(b),
   data_source |-> ParseDataSource(b),
   memory_scope |-> ParseMemoryScope(b)]

\* faulty variant: user_id is not passed on
ManagerArgsNoUser(b) ==
  [query |-> ParseQuery(b)[1],
   user_id |-> Absent,
   group_id |-> ParseGroupId(b),
   time_range_days |-> ParseTimeRangeDays(b),
   top_k |-> ParseTopK(b),
   retrieval_mode |-> ParseRetrievalMode(b),
   data_source |-> ParseDataSource(b),
   memory_scope |-> ParseMemoryScope(b)]

\* lines 332-341: the keyword arguments of memory_manager.retrieve_lightweight
ManagerArgs(b) ==
  [query |-> ParseQuery(b)[1],
   user_id |-> ParseUserId(b),
   group_id |-> ParseGroupId(b),
   time_range_days |-> ParseTimeRangeDays(b),
   top_k |-> ParseTopK(b),
   retrieval_mode |-> ParseRetrievalMode(b),
   data_source |-> ParseDataSource(b),
   memory_scope |-> ParseMemoryScope(b)]

\* the handler raises: the except clauses turn the exception into the response
Raise(exc) ==
  /\ raised' = exc
  /\ resp' = ExceptionResponse(exc)
  /\ pc' = "done"

\* lines 313-324, 350-352: a request without a query is refused before the
\* manager is called
RejectMissingQuery(b) ==
  /\ pc = "idle"
  /\ QueryMissing(ParseQuery(b))
  /\ body' = b
  /\ Raise(ValueError("missing required parameter: query"))
  /\ UNCHANGED <<req, vec, lex, arrival, fused, hits, degraded, calls,
                 unresolved>>
  /\ UNCHANGED outside

\* lines 313-341 and the Normalizer: the manager is called and refuses a
\* non-positive top_k before any fetcher is dispatched
RejectInvalidTopK(b) ==
  /\ pc = "idle"
  /\ ~QueryMissing(ParseQuery(b))
  /\ TopKInvalid(ManagerArgs(b).top_k)
  /\ body' = b
  /\ req' = ManagerArgs(b)
  /\ calls' = [calls EXCEPT !.manager = @ + 1]
  /\ Raise(ValueError("top_k must be positive"))
  /\ UNCHANGED <<vec, lex, arrival, fused, hits, degraded, unresolved>>
  /\ UNCHANGED outside

\* 4.2, 7: a ConfigurationError is a client error; of the controller's except
\* clauses only the one for ValueError answers with a client error
ConfigurationError(msg) == ValueError(msg)

\* lines 313-341 and the Scope Resolver: the manager is called and refuses an
\* unrecognized data_source or memory_scope before any fetcher is dispatched
RejectConfiguration(b) ==
  /\ pc = "idle"
  /\ ~QueryMissing(ParseQuery(b))
  /\ ~TopKInvalid(ManagerArgs(b).top_k)
  /\ ConfigInvalid(ManagerArgs(b).data_source, ManagerArgs(b).memory_scope)
  /\ body' = b
  /\ req' = ManagerArgs(b)
  /\ calls' = [calls EXCEPT !.manager = @ + 1]
  /\ Raise(ConfigurationError("unrecognized data_source or memory_scope"))
  /\ UNCHANGED <<vec, lex, arrival, fused, hits, degraded, unresolved>>
  /\ UNCHANGED outside

\* lines 313-341, the Normalizer and the Scope Resolver: the manager is
\* called, resolves the partition-filter descriptor and dispatches the
\* fetchers of the retrieval mode with it; the Vector Fetcher first asks the
\* embedding service for the query vector
Dispatch(b) ==
  /\ pc = "idle"
  /\ ~QueryMissing(ParseQuery(b))
  /\ ~TopKInvalid(ManagerArgs(b).top_k)
  /\ ~ConfigInvalid(ManagerArgs(b).data_source, ManagerArgs(b).memory_scope)
  /\ body' = b
  /\ req' = ManagerArgs(b)
  /\ LET mode == ManagerArgs(b).retrieval_mode
         v == IF UsesVector(mode) THEN 1 ELSE 0
         l == IF UsesLexical(mode) THEN 1 ELSE 0
         f == Descriptor(ManagerArgs(b))
         n == PoolSize(ManagerArgs(b).top_k)
     IN /\ vec' = IF v = 1
                  THEN [vec EXCEPT !.st = "pending", !.filter = f, !.limit = n,
                                   !.attempts = 1]
                  ELSE vec
        /\ lex' = IF l = 1
                  THEN [lex EXCEPT !.st = "pending", !.filter = f, !.limit = n,
                                   !.attempts = 1]
                  ELSE lex
        /\ calls' = [calls EXCEPT !.manager = @ + 1, !.embedding = @ + v,
                                  !.vector = @ + v, !.lexical = @ + l]
  /\ pc' = "fetching"
  /\ UNCHANGED <<arrival, fused, hits, degraded, raised, resp, unresolved>>
  /\ UNCHANGED outside

\* 4.3: the vector search returns its ranked candidates
VectorFetchOk(list) ==
  /\ pc = "fetching"
  /\ vec.st = "pending"
  /\ vec' = [vec EXCEPT !.st = "ok", !.list = list]
  /\ arrival' = Append(arrival, "vector")
  /\ UNCHANGED <<pc, body, req, lex, fused, hits, degraded, raised, resp,
                 calls, unresolved>>
  /\ UNCHANGED outside

\* 4.3: the embedding service or the index fails, or the deadline passes
VectorFetchFail(kind) ==
  /\ pc = "fetching"
  /\ vec.st = "pending"
  /\ vec' = [vec EXCEPT !.st = "failed", !.err = kind]
  /\ arrival' = Append(arrival, "vector")
  /\ UNCHANGED <<pc, body, req, lex, fused, hits, degraded, raised, resp,
                 calls, unresolved>>
  /\ UNCHANGED outside

\* 4.4: the lexical search returns its ranked candidates
LexicalFetchOk(list) ==
  /\ pc = "fetching"
  /\ lex.st = "pending"
  /\ lex' = [lex EXCEPT !.st = "ok", !.list = list]
  /\ arrival' = Append(arrival, "lexical")
  /\ UNCHANGED <<pc, body, req, vec, fused, hits, degraded, raised, resp,
                 calls, unresolved>>
  /\ UNCHANGED outside

\* 4.4: the inverted index fails, or the deadline passes
LexicalFetchFail(kind) ==
  /\ pc = "fetching"
  /\ lex.st = "pending"
  /\ lex' = [lex EXCEPT !.st = "failed", !.err = kind]
  /\ arrival' = Append(arrival, "lexical")
  /\ UNCHANGED <<pc, body, req, vec, fused, hits, degraded, raised, resp,
                 calls, unresolved>>
  /\ UNCHANGED outside

\* faulty variant: the fetcher retries as often as its backend fails
RetryUnbounded(f) == f.st = "pending"

\* 5: a fetcher whose backend call failed may call it once more
RetryAllowed(f) == f.st = "pending" /\ f.attempts < MaxAttempts

\* 5: the vector backend fails and the Vector Fetcher retries
VectorRetry ==
  /\ pc = "fetching"
  /\ RetryAllowed(vec)
  /\ vec' = [vec EXCEPT !.attempts = @ + 1]
  /\ UNCHANGED <<pc, body, req, lex, arrival, fused, hits, degraded, raised, resp,
                 calls, unresolved>>
  /\ UNCHANGED outside

\* 5: the lexical backend fails and the Lexical Fetcher retries
LexicalRetry ==
  /\ pc = "fetching"
  /\ RetryAllowed(lex)
  /\ lex' = [lex EXCEPT !.attempts = @ + 1]
  /\ UNCHANGED <<pc, body, req, vec, arrival, fused, hits, degraded, raised, resp,
                 calls, unresolved>>
  /\ UNCHANGED outside

\* what the awaited manager may raise besides a fetcher's failure
ManagerExceptions ==
  {ValueError("invalid argument"), HTTPException(404, "not found"),
   HTTPException(503, "unavailable"), OtherError("RuntimeError"),
   OtherError("KeyError")}

\* lines 332-359: the awaited call raises; the handler's except clauses
\* answer
ManagerRaises(exc) ==
  /\ pc \in {"fetching", "enriching"}
  /\ Raise(exc)
  /\ UNCHANGED <<body, req, vec, lex, arrival, fused, hits, degraded, calls,
                 unresolved>>
  /\ UNCHANGED outside

Fetcher(origin) == IF origin = "vector" THEN vec ELSE lex

\* faulty variant: the barrier opens when the first fetch is in
FirstFetchIn == arrival # <<>>

\* 5: both required fetches have completed or failed
FetchesJoined == vec.st # "pending" /\ lex.st # "pending"

\* faulty variant: one failed fetch fails the request
AnyFetchFailed == vec.st = "failed" \/ lex.st = "failed"

\* 5: no required fetcher succeeded
AllFetchesFailed == vec.st # "ok" /\ lex.st # "ok"

\* faulty variant: a fetcher that did not run counts as failed
FailedOriginAnyMissing ==
  IF vec.st # "ok" /\ lex.st = "ok" THEN "vector"
  ELSE IF lex.st # "ok" /\ vec.st = "ok" THEN "lexical"
  ELSE ""

\* 5: rrf with exactly one fetcher failed; the origin that failed
FailedOrigin ==
  IF vec.st = "failed" /\ lex.st = "ok" THEN "vector"
  ELSE IF lex.st = "failed" /\ vec.st = "ok" THEN "lexical"
  ELSE ""

\* 4.5, 5: the fused ranking of the lists at hand
Fuse ==
  IF vec.st = "ok" /\ lex.st = "ok"
  THEN RrfFuse(Fetcher(arrival[1]).list, Fetcher(arrival[2]).list)
  ELSE IF vec.st = "ok" THEN PassThrough("vector", vec.list)
  ELSE PassThrough("lexical", lex.list)

\* 5, 7: every required fetcher failed: the failure of the first one to fail
\* propagates out of the manager and through the controller's except clauses
MgrFailAll ==
  /\ pc = "fetching"
  /\ FetchesJoined
  /\ AllFetchesFailed
  /\ Raise(FetcherError(Fetcher(arrival[1]).err))
  /\ UNCHANGED <<body, req, vec, lex, arrival, fused, hits, degraded, calls,
                 unresolved>>
  /\ UNCHANGED outside

\* 4.5-4.6: after the join, fuse, deduplicate, truncate to top_k and ask the
\* document store for the survivors in one batched call
MgrFuse ==
  /\ pc = "fetching"
  /\ FetchesJoined
  /\ ~AllFetchesFailed
  /\ fused' = Fuse
  /\ hits' = Truncate(DedupHits(Fuse, {}), req.top_k)
  /\ degraded' = FailedOrigin
  /\ calls' = [calls EXCEPT !.docstore = @ + 1]
  /\ pc' = "enriching"
  /\ UNCHANGED <<body, req, vec, lex, arrival, raised, resp, unresolved>>
  /\ UNCHANGED outside

\* 4.6, 6: result of the manager
Result(memories) ==
  [memories |-> memories, count |-> Len(memories),
   metadata |-> [retrieval_mode |-> req.retrieval_mode,
                 embedding_candidates |-> Len(vec.list),
                 bm25_candidates |-> Len(lex.list),
                 final_count |-> Len(memories),
                 degraded |-> degraded # "",
                 failed_origin |-> degraded]]

\* faulty variant: a record the document store cannot resolve fails the
\* request
EnrichAndRespondRaisesOnMiss(missing) ==
  /\ pc = "enriching"
  /\ missing \subseteq {hits[i].id : i \in 1..Len(hits)}
  /\ unresolved' = missing
  /\ IF missing = {}
     THEN /\ resp' = OkResponse(Result([i \in 1..Len(hits) |-> Memory(hits[i])]))
          /\ raised' = raised
     ELSE /\ resp' = ExceptionResponse(FetcherError("KeyError"))
          /\ raised' = FetcherError("KeyError")
  /\ pc' = "done"
  /\ UNCHANGED <<body, req, vec, lex, arrival, fused, hits, degraded, calls>>
  /\ UNCHANGED outside

\* 4.6 and lines 343-348: the document store answers the batched lookup of
\* the survivors, unresolved records are dropped, the manager returns and the
\* controller wraps the result
EnrichAndRespond(missing) ==
  /\ pc = "enriching"
  /\ missing \subseteq {hits[i].id : i \in 1..Len(hits)}
  /\ unresolved' = missing
  /\ LET kept == Enrich(hits, missing)
     IN resp' = OkResponse(Result([i \in 1..Len(kept) |-> Memory(kept[i])]))
  /\ pc' = "done"
  /\ UNCHANGED <<body, req, vec, lex, arrival, fused, hits, degraded, raised, calls>>
  /\ UNCHANGED outside

\* what the document store fails to resolve in one request: nothing, or one
\* record
MissingSets == {{}} \cup {{i} : i \in Ids \cup StoreIds}

CancelledError == OtherError("CancelledError")

FetchCancelled(f) ==
  IF f.st = "idle" THEN f ELSE [f EXCEPT !.st = "cancelled", !.list = <<>>, !.err = ""]

\* faulty variant: the handler stops but the fetches in flight are left running
CancelHandlerOnly ==
  /\ pc = "fetching"
  /\ ~FetchesJoined
  /\ pc' = "cancelled"
  /\ raised' = CancelledError
  /\ UNCHANGED <<body, req, vec, lex, arrival, fused, hits, degraded, resp, calls,
                 unresolved>>
  /\ UNCHANGED outside

\* 5: the caller cancels while a fetch is in flight -- the fetches are
\* cancelled, what came in is discarded, and the cancellation leaves the
\* handler through none of its except clauses, so no response is assembled
Cancel ==
  /\ pc = "fetching"
  /\ ~FetchesJoined
  /\ vec' = FetchCancelled(vec)
  /\ lex' = FetchCancelled(lex)
  /\ pc' = "cancelled"
  /\ raised' = CancelledError
  /\ UNCHANGED <<body, req, arrival, fused, hits, degraded, resp, calls, unresolved>>
  /\ UNCHANGED outside

Next ==
  \/ \E b \in Bodies : RejectMissingQuery(b)
  \/ \E b \in Bodies : RejectInvalidTopK(b)
  \/ \E b \in Bodies : RejectConfiguration(b)
  \/ \E b \in Bodies : Dispatch(b)
  \/ \E list \in CandidateLists : VectorFetchOk(list)
  \/ \E kind \in FailureKinds : VectorFetchFail(kind)
  \/ \E list \in CandidateLists : LexicalFetchOk(list)
  \/ \E kind \in FailureKinds : LexicalFetchFail(kind)
  \/ MgrFailAll
  \/ MgrFuse
  \/ \E missing \in MissingSets : EnrichAndRespond(missing)
  \/ Cancel

Spec == Init /\ [][Next]_<<vars, outside>>

\* ------------------------------------- the pipeline over the reference store
UserVals == {Absent, Some("u1"), Some("u2")}

TimeRangeVals == {Absent, Some(5), Some(DefaultTimeRangeDays + 135)}

\* request bodies that vary source, scope, user and time range
ScopeBodies ==
  [query : {Some("q")}, top_k : {Absent} \cup {Some(k) : k \in 1..MaxTopK},
   retrieval_mode : {Some("embedding"), Some("bm25"), Some("rrf")},
   data_source : {Absent, Some("memcell"), Some("event_log"),
                  Some("semantic_memory"), Some("archive")},
   memory_scope : {Absent, Some("all"), Some("personal"), Some("group"),
                   Some("everyone")},
   user_id : UserVals, group_id : {Absent}, time_range_days : TimeRangeVals]
    \cup [query : {Some("q")}, top_k : {Absent}, retrieval_mode : {Some("rrf")},
          data_source : {Some("memcell"), Some("event_log")},
          memory_scope : {Absent}, user_id : {Absent},
          group_id : {Some("g1"), Some("g2")}, time_range_days : {Absent}]

\* as Next, with the fetchers answering from the reference store
ScopeNext ==
  \/ \E b \in ScopeBodies : RejectConfiguration(b)
  \/ \E b \in ScopeBodies : Dispatch(b)
  \/ VectorFetchOk(VectorSearch(vec.filter, vec.limit))
  \/ \E kind \in FailureKinds : VectorFetchFail(kind)
  \/ LexicalFetchOk(LexicalSearch(lex.filter, lex.limit))
  \/ \E kind \in FailureKinds : LexicalFetchFail(kind)
  \/ MgrFailAll
  \/ MgrFuse
  \/ \E missing \in MissingSets : EnrichAndRespond(missing)
  \/ Cancel

SpecScope == Init /\ [][ScopeNext]_<<vars, outside>>

\* ------------------------------------------- the pipeline with faults
\* request bodies for the fault runs: top_k missing, small, past the pool cap
\* or zero; with and without a query; a known or an unknown scope
FaultBodies ==
  [query : {Absent, Some("q")},
   top_k : {Absent, Some(0), Some(1), Some(PoolCap + 1)},
   retrieval_mode : {Some("embedding"), Some("bm25"), Some("rrf")},
   data_source : {Absent}, memory_scope : {Absent, Some("everyone")},
   user_id : {Absent}, group_id : {Absent}, time_range_days : {Absent}]

\* as ScopeNext, with the retry inside each fetcher and with the manager
\* raising exceptions of any class
FaultNext ==
  \/ \E b \in FaultBodies : RejectMissingQuery(b)
  \/ \E b \in FaultBodies : RejectInvalidTopK(b)
  \/ \E b \in FaultBodies : RejectConfiguration(b)
  \/ \E b \in FaultBodies : Dispatch(b)
  \/ VectorRetry
  \/ VectorFetchOk(VectorSearch(vec.filter, vec.limit))
  \/ \E kind \in FailureKinds : VectorFetchFail(kind)
  \/ LexicalRetry
  \/ LexicalFetchOk(LexicalSearch(lex.filter, lex.limit))
  \/ \E kind \in FailureKinds : LexicalFetchFail(kind)
  \/ \E exc \in ManagerExceptions : ManagerRaises(exc)
  \/ MgrFailAll
  \/ MgrFuse
  \/ \E missing \in MissingSets : EnrichAndRespond(missing)
  \/ Cancel

SpecFaults == Init /\ [][FaultNext]_<<vars, outside>>

\* ------------------------------------------- requests handled concurrently
\* lines 323-324 and the Normalizer: what the handler raises before any
\* fetcher is dispatched
EarlyError(b) ==
  IF QueryMissing(ParseQuery(b))
  THEN ValueError("missing required parameter: query")
  ELSE IF TopKInvalid(ManagerArgs(b).top_k)
  THEN ValueError("top_k must be positive")
  ELSE IF ConfigInvalid(ManagerArgs(b).data_source, ManagerArgs(b).memory_scope)
  THEN ConfigurationError("unrecognized data_source or memory_scope")
  ELSE NoException

\* 4.5-4.6, 5 and lines 343-359: the response assembled from the arguments
\* and from what the two fetchers of the request ended with
Assemble(r, v, l) ==
  IF v.st # "ok" /\ l.st # "ok"
  THEN ExceptionResponse(FetcherError("BackendUnavailable"))
  ELSE
    LET ranked == IF v.st = "ok" /\ l.st = "ok" THEN RrfFuse(v.list, l.list)
                  ELSE IF v.st = "ok" THEN PassThrough("vector", v.list)
                  ELSE PassThrough("lexical", l.list)
        kept == Truncate(DedupHits(ranked, {}), r.top_k)
        origin == IF v.st = "failed" THEN "vector"
                  ELSE IF l.st = "failed" THEN "lexical" ELSE ""
    IN OkResponse(
         [memories |-> [i \in 1..Len(kept) |-> Memory(kept[i])],
          count |-> Len(kept),
          metadata |-> [retrieval_mode |-> r.retrieval_mode,
                        embedding_candidates |-> Len(v.list),
                        bm25_candidates |-> Len(l.list),
                        final_count |-> Len(kept),
                        degraded |-> origin # "",
                        failed_origin |-> origin]])

\* what a fetch of the request with arguments r ends with, given how its
\* backend answered
Fetched(origin, r, how) ==
  [st |-> how,
   list |-> IF how # "ok" THEN <<>>
            ELSE IF origin = "vector"
            THEN VectorSearch(Descriptor(r), PoolSize(r.top_k))
            ELSE LexicalSearch(Descriptor(r), PoolSize(r.top_k))]

\* faulty variant: the handler keeps its locals on the controller, which all
\* requests share
FrameOnController(r) == 1

\* lines 313-321: query, top_k, ... and result are locals of the coroutine,
\* one set per invocation; the controller (lines 50-61) holds collaborators
\* only
Frame(r) == r

InFlight(r) == sent[r] # NoBody /\ answer[r] = NoResponse

\* lines 311-341: a request arrives; the handler refuses it or dispatches
\* the fetchers of its mode
PairStart(r, b) ==
  /\ sent[r] = NoBody
  /\ sent' = [sent EXCEPT ![r] = b]
  /\ overlap' = (overlap \/ \E q \in Requests : InFlight(q))
  /\ IF EarlyError(b) # NoException
     THEN /\ answer' = [answer EXCEPT ![r] = ExceptionResponse(EarlyError(b))]
          /\ frames' = frames
     ELSE /\ answer' = answer
          /\ frames' =
               [frames EXCEPT ![Frame(r)] =
                 [req |-> ManagerArgs(b),
                  vec |-> [st |-> IF UsesVector(ManagerArgs(b).retrieval_mode)
                                  THEN "pending" ELSE "idle", list |-> <<>>],
                  lex |-> [st |-> IF UsesLexical(ManagerArgs(b).retrieval_mode)
                                  THEN "pending" ELSE "idle", list |-> <<>>]]]
  /\ UNCHANGED backend
  /\ UNCHANGED exceptPair

\* 4.3: the vector fetch of request r completes or fails
PairVectorFetch(r, how) ==
  /\ InFlight(r)
  /\ frames[Frame(r)].vec.st = "pending"
  /\ frames' = [frames EXCEPT ![Frame(r)].vec =
                  Fetched("vector", frames[Frame(r)].req, how)]
  /\ backend' = [backend EXCEPT ![r].vector = how]
  /\ UNCHANGED <<sent, answer, overlap>>
  /\ UNCHANGED exceptPair

\* 4.4: the lexical fetch of request r completes or fails
PairLexicalFetch(r, how) ==
  /\ InFlight(r)
  /\ frames[Frame(r)].lex.st = "pending"
  /\ frames' = [frames EXCEPT ![Frame(r)].lex =
                  Fetched("lexical", frames[Frame(r)].req, how)]
  /\ backend' = [backend EXCEPT ![r].lexical = how]
  /\ UNCHANGED <<sent, answer, overlap>>
  /\ UNCHANGED exceptPair

\* 4.5-4.6 and lines 343-359: after the join the handler of request r answers
PairRespond(r) ==
  /\ InFlight(r)
  /\ frames[Frame(r)].vec.st # "pending"
  /\ frames[Frame(r)].lex.st # "pending"
  /\ answer' = [answer EXCEPT ![r] =
                  Assemble(frames[Frame(r)].req, frames[Frame(r)].vec,
                           frames[Frame(r)].lex)]
  /\ UNCHANGED <<sent, frames, backend, overlap>>
  /\ UNCHANGED exceptPair

\* bodies of the concurrent requests: different modes, sources and top_k,
\* and one the resolver refuses
PairBodies ==
  {[NoBody EXCEPT !.query = Some("q"), !.top_k = Some(1)],
   [NoBody EXCEPT !.query = Some("q"), !.retrieval_mode = Some("embedding"),
                  !.data_source = Some("event_log")],
   [NoBody EXCEPT !.query = Some("q"), !.retrieval_mode = Some("bm25"),
                  !.memory_scope = Some("everyone")]}

PairNext ==
  \/ \E r \in Requests, b \in PairBodies : PairStart(r, b)
  \/ \E r \in Requests, how \in {"ok", "failed"} : PairVectorFetch(r, how)
  \/ \E r \in Requests, how \in {"ok", "failed"} : PairLexicalFetch(r, how)
  \/ \E r \in Requests : PairRespond(r)

SpecPair == Init /\ [][PairNext]_<<vars, outside>>

\* ------------------------------------------------- gauge refresh tasks
\* RefreshTask.__init__
RefreshTask(k) ==
  [key |-> k, running |-> FALSE, handle |-> FALSE, loop |-> "none",
   errors |-> 0, stopped |-> FALSE]

\* RefreshTask.start: nothing when already running, else the loop is handed
\* to the event loop
TaskStart(task) ==
  IF task.running THEN task
  ELSE [task EXCEPT !.running = TRUE, !.handle = TRUE, !.loop = "scheduled"]

\* RefreshTask.stop up to its await: _running is cleared and the loop is
\* asked to cancel
TaskStopRequest(task) ==
  [task EXCEPT !.running = FALSE,
               !.loop = IF task.handle /\ @ \in {"scheduled", "sleeping"}
                        THEN "cancelling" ELSE @]

\* RefreshTask.stop after its await: the handle is dropped and stop returns
TaskStopReturn(task) == [task EXCEPT !.handle = FALSE, !.stopped = TRUE]

\* faulty variant: the exception of refresh() leaves the loop
TaskRefreshFailedLoopEnds(task) ==
  [task EXCEPT !.errors = @ + 1, !.loop = "done"]

\* _refresh_loop, except Exception: the error is counted, the loop sleeps
\* and goes on
TaskRefreshFailed(task) == [task EXCEPT !.errors = @ + 1, !.loop = "sleeping"]

\* _refresh_loop, no exception: the error count is reset, the loop sleeps
TaskRefreshed(task) == [task EXCEPT !.errors = 0, !.loop = "sleeping"]

Created == {t \in TaskIds : tasks[t].key # ""}

\* the loop of task t can still refresh: it exists and nobody cancelled it
LoopRuns(t) == tasks[t].loop \in {"scheduled", "sleeping"}

\* LabeledGauge.start_refresh: a running task registered under the key gets
\* a stop scheduled in the background, a new task is registered and started
StartRefresh(k) ==
  /\ Cardinality(Created) < MaxTasks
  /\ LET t == Cardinality(Created) + 1
         existing == registry[k]
     IN /\ stops' = IF existing # NoTask /\ tasks[existing].running
                     THEN [stops EXCEPT ![existing] = "scheduled"]
                     ELSE stops
        /\ tasks' = [tasks EXCEPT ![t] = TaskStart(RefreshTask(k))]
        /\ registry' = [registry EXCEPT ![k] = t]
  /\ lastCall' = [lastCall EXCEPT ![k] = "start"]
  /\ UNCHANGED <<stoppers, gauge, lastSetBy>>
  /\ UNCHANGED exceptGauge

\* the stop() scheduled by start_refresh gets to run, up to its await
BackgroundStopRuns(t) ==
  /\ stops[t] = "scheduled"
  /\ IF tasks[t].running
     THEN /\ tasks' = [tasks EXCEPT ![t] = TaskStopRequest(@)]
          /\ stops' = [stops EXCEPT ![t] = "awaiting"]
     ELSE /\ tasks' = [tasks EXCEPT ![t].stopped = TRUE]
          /\ stops' = [stops EXCEPT ![t] = "done"]
  /\ UNCHANGED <<registry, stoppers, gauge, lastSetBy, lastCall>>
  /\ UNCHANGED exceptGauge

\* the loop it awaited has ended: the background stop returns
BackgroundStopReturns(t) ==
  /\ stops[t] = "awaiting"
  /\ tasks[t].loop = "done"
  /\ tasks' = [tasks EXCEPT ![t] = TaskStopReturn(@)]
  /\ stops' = [stops EXCEPT ![t] = "done"]
  /\ UNCHANGED <<registry, stoppers, gauge, lastSetBy, lastCall>>
  /\ UNCHANGED exceptGauge

\* LabeledGauge.stop_refresh up to the await inside task.stop(): without a
\* registered task it returns; a task that is not running is unregistered at
\* once; a running one is asked to stop and the caller waits for its loop
StopRefreshCalled(c, k) ==
  /\ stoppers[c].pc = "idle"
  \* the callers are interchangeable: they take their turns in order
  /\ \A d \in Stoppers : d < c => stoppers[d].pc # "idle"
  /\ LET t == registry[k]
     IN IF t = NoTask
        THEN /\ stoppers' = [stoppers EXCEPT ![c] =
                               [pc |-> "done", key |-> "", task |-> NoTask]]
             /\ lastCall' = [lastCall EXCEPT ![k] = "stop"]
             /\ UNCHANGED <<tasks, registry>>
        ELSE IF ~tasks[t].running
        THEN /\ stoppers' = [stoppers EXCEPT ![c] =
                               [pc |-> "done", key |-> "", task |-> NoTask]]
             /\ tasks' = [tasks EXCEPT ![t].stopped = TRUE]
             /\ registry' = [registry EXCEPT ![k] = NoTask]
             /\ lastCall' = [lastCall EXCEPT ![k] = "stop"]
        ELSE /\ stoppers' = [stoppers EXCEPT ![c] =
                               [pc |-> "awaiting", key |-> k, task |-> t]]
             /\ tasks' = [tasks EXCEPT ![t] = TaskStopRequest(@)]
             /\ UNCHANGED <<registry, lastCall>>
  /\ UNCHANGED <<stops, gauge, lastSetBy>>
  /\ UNCHANGED exceptGauge

\* the loop the caller awaited has ended: task.stop() returns and
\* stop_refresh deletes whatever is registered under its key; the delete
\* raises KeyError when nothing is
StopRefreshResumes(c) ==
  /\ stoppers[c].pc = "awaiting"
  /\ tasks[stoppers[c].task].loop = "done"
  /\ tasks' = [tasks EXCEPT ![stoppers[c].task] = TaskStopReturn(@)]
  /\ IF registry[stoppers[c].key] = NoTask
     THEN /\ stoppers' = [stoppers EXCEPT ![c] = [pc |-> "raised", key |-> "", task |-> NoTask]]
          /\ UNCHANGED <<registry, lastCall>>
     ELSE /\ stoppers' = [stoppers EXCEPT ![c] = [pc |-> "done", key |-> "", task |-> NoTask]]
          /\ registry' = [registry EXCEPT ![stoppers[c].key] = NoTask]
          /\ lastCall' = [lastCall EXCEPT ![stoppers[c].key] = "stop"]
  /\ UNCHANGED <<stops, gauge, lastSetBy>>
  /\ UNCHANGED exceptGauge

\* _refresh_loop, one round in which refresh() returns v: the gauge is set
\* and the error count reset; the loop ends instead when _running is off
LoopRefreshes(t, v) ==
  /\ LoopRuns(t)
  /\ IF tasks[t].running
     THEN /\ tasks' = [tasks EXCEPT ![t] = TaskRefreshed(@)]
          /\ gauge' = [gauge EXCEPT ![tasks[t].key] = v]
          /\ lastSetBy' = [lastSetBy EXCEPT ![tasks[t].key] = t]
     ELSE /\ tasks' = [tasks EXCEPT ![t].loop = "done"]
          /\ UNCHANGED <<gauge, lastSetBy>>
  /\ UNCHANGED <<registry, stops, stoppers, lastCall>>
  /\ UNCHANGED exceptGauge

\* _refresh_loop, one round in which refresh() raises an Exception
LoopRefreshFails(t) ==
  /\ LoopRuns(t)
  /\ tasks[t].errors < MaxErrors
  /\ tasks' = [tasks EXCEPT ![t] =
                 IF tasks[t].running THEN TaskRefreshFailed(@)
                 ELSE [@ EXCEPT !.loop = "done"]]
  /\ UNCHANGED <<registry, stops, stoppers, gauge, lastSetBy, lastCall>>
  /\ UNCHANGED exceptGauge

\* the cancellation reaches the loop, before its first round or in its
\* sleep: the loop ends
LoopCancelled(t) ==
  /\ tasks[t].loop = "cancelling"
  /\ tasks' = [tasks EXCEPT ![t].loop = "done"]
  /\ UNCHANGED <<registry, stops, stoppers, gauge, lastSetBy, lastCall>>
  /\ UNCHANGED exceptGauge

GaugeNext ==
  \/ \E k \in LabelKeys : StartRefresh(k)
  \/ \E t \in TaskIds : BackgroundStopRuns(t)
  \/ \E t \in TaskIds : BackgroundStopReturns(t)
  \/ \E c \in Stoppers, k \in LabelKeys : StopRefreshCalled(c, k)
  \/ \E c \in Stoppers : StopRefreshResumes(c)
  \/ \E t \in TaskIds, v \in GaugeValues : LoopRefreshes(t, v)
  \/ \E t \in TaskIds : LoopRefreshFails(t)
  \/ \E t \in TaskIds : LoopCancelled(t)

SpecGauge == Init /\ [][GaugeNext]_<<vars, outside>>

\* ------------------------------------------------- HTTP metrics middleware
\* dispatch up to its await of call_next: a skipped path goes straight to
\* the handler; otherwise the request size is observed when the header is
\* there (int() raises ValueError on a value that is no number) and the
\* status starts as '500'
MwDispatch(r, path, cl) ==
  /\ dispatches[r].pc = "idle"
  /\ IF path \in SKIP_PATHS
     THEN /\ dispatches' = [dispatches EXCEPT ![r] =
                 [NoDispatch EXCEPT !.pc = "passing", !.path = path, !.cl = cl]]
          /\ UNCHANGED requestSizes
     ELSE IF cl # Absent /\ cl[1] # <<>> /\ ~IsInteger(cl[1])
     THEN /\ dispatches' = [dispatches EXCEPT ![r] =
                 [NoDispatch EXCEPT !.pc = "done", !.path = path, !.cl = cl,
                                    !.outcome = "ValueError"]]
          /\ UNCHANGED requestSizes
     ELSE /\ dispatches' = [dispatches EXCEPT ![r] =
                 [NoDispatch EXCEPT !.pc = "timing", !.path = path, !.cl = cl,
                                    !.status = "500"]]
          /\ requestSizes' =
               IF cl # Absent /\ cl[1] # <<>>
               THEN [requestSizes EXCEPT ![NormalizePath(path)] = @ + 1]
               ELSE requestSizes
  /\ UNCHANGED <<requestsTotal, durations>>
  /\ UNCHANGED exceptMw

\* line 119: the status label of a request whose handler returned
FinalStatus(code) == Str(code)

\* the finally block: one increment of http_requests_total under the status
\* given, one duration observation
Recorded(r, status) ==
  /\ requestsTotal' =
       [requestsTotal EXCEPT ![<<NormalizePath(dispatches[r].path), status>>] = @ + 1]
  /\ durations' = [durations EXCEPT ![NormalizePath(dispatches[r].path)] = @ + 1]

\* call_next returns a response with the status code given
MwHandlerReturns(r, code) ==
  /\ dispatches[r].pc \in {"passing", "timing"}
  /\ IF dispatches[r].pc = "passing"
     THEN /\ dispatches' = [dispatches EXCEPT ![r].pc = "done",
                                              ![r].outcome = "returned",
                                              ![r].code = code]
          /\ UNCHANGED <<requestsTotal, durations>>
     ELSE /\ dispatches' =
               [dispatches EXCEPT ![r].pc = "done",
                                  ![r].outcome = "returned",
                                  ![r].code = code,
                                  ![r].status = FinalStatus(code),
                                  ![r].incs = Append(@, FinalStatus(code)),
                                  ![r].observed = @ + 1]
          /\ Recorded(r, FinalStatus(code))
  /\ UNCHANGED requestSizes
  /\ UNCHANGED exceptMw

\* call_next raises: the finally block records under the status dispatch
\* started with and the exception goes on to the caller
MwHandlerRaises(r) ==
  /\ dispatches[r].pc \in {"passing", "timing"}
  /\ IF dispatches[r].pc = "passing"
     THEN /\ dispatches' = [dispatches EXCEPT ![r].pc = "done",
                                              ![r].outcome = "HandlerError"]
          /\ UNCHANGED <<requestsTotal, durations>>
     ELSE /\ dispatches' =
               [dispatches EXCEPT ![r].pc = "done",
                                  ![r].outcome = "HandlerError",
                                  ![r].incs = Append(@, dispatches[r].status),
                                  ![r].observed = @ + 1]
          /\ Recorded(r, dispatches[r].status)
  /\ UNCHANGED requestSizes
  /\ UNCHANGED exceptMw

MwNext ==
  \/ \E r \in HttpRequests, path \in HttpPaths, cl \in ContentLengths :
       MwDispatch(r, path, cl)
  \/ \E r \in HttpRequests, code \in StatusCodes : MwHandlerReturns(r, code)
  \/ \E r \in HttpRequests : MwHandlerRaises(r)

SpecMiddleware == Init /\ [][MwNext]_<<vars, outside>>

\* ------------------------------------------------------ answer generation
\* texts are sequences of words; a blank stands for white space
FinalAnswerMarker == "FINAL ANSWER:"

Blank == " "

\* what llm_provider.generate can return: nothing, white space, an answer,
\* reasoning followed by the marked answer, a marker with nothing behind it,
\* two markers
LlmTexts ==
  {<<>>, <<Blank>>, <<"Paris">>,
   <<"because", FinalAnswerMarker, Blank, "Paris">>,
   <<"unsure", FinalAnswerMarker, Blank>>,
   <<FinalAnswerMarker, "Paris", FinalAnswerMarker, "Rome">>}

\* an outcome of llm_provider.generate: it raises, or returns a text
Raises == [raises |-> TRUE, text |-> <<>>]

Returns(text) == [raises |-> FALSE, text |-> text]

LlmOutcomes == {Raises} \cup {Returns(t) : t \in LlmTexts}

\* str.strip
RECURSIVE StripLeft(_)
StripLeft(text) ==
  IF text # <<>> /\ Head(text) = Blank THEN StripLeft(Tail(text)) ELSE text

RECURSIVE StripRight(_)
StripRight(text) ==
  IF text # <<>> /\ text[Len(text)] = Blank
  THEN StripRight(SubSeq(text, 1, Len(text) - 1)) ELSE text

Strip(text) == StripRight(StripLeft(text))

\* the position of the first marker in the text, Len(text) + 1 without one
RECURSIVE MarkerAt(_)
MarkerAt(text) ==
  IF text = <<>> \/ Head(text) = FinalAnswerMarker THEN 1
  ELSE 1 + MarkerAt(Tail(text))

\* result.split("FINAL ANSWER:")[1]: what stands between the first marker
\* and the next
SecondPart(text) ==
  LET rest == SubSeq(text, MarkerAt(text) + 1, Len(text))
  IN SubSeq(rest, 1, MarkerAt(rest) - 1)

\* lines 140-150: the answer taken from the text generate returned
ParseAnswer(text) ==
  IF MarkerAt(text) <= Len(text) THEN Strip(SecondPart(text)) ELSE Strip(text)

\* return result: the string bound to result, UnboundLocalError when no
\* assignment to result was ever executed
ReturnResult(g) ==
  [g EXCEPT !.pc = IF g.result = Absent THEN "UnboundLocalError" ELSE "returned"]

\* locomo_response is called with max_retries at least 1 and enters its loop
GenStart(max_retries) ==
  /\ gen.pc = "idle"
  /\ gen' = [NoGeneration EXCEPT !.pc = "looping", !.max_retries = max_retries]
  /\ UNCHANGED exceptGen

\* one round of the loop with the outcome of generate given: an exception
\* and an empty answer go on to the next round, an answer leaves the loop;
\* after the loop result is returned
GenRound(o) ==
  /\ gen.pc = "looping"
  /\ gen.i < gen.max_retries
  /\ LET after == [gen EXCEPT !.i = @ + 1,
                              !.outcomes = Append(@, o),
                              !.result = IF o.raises THEN @
                                         ELSE Some(ParseAnswer(o.text))]
         left == (~o.raises /\ ParseAnswer(o.text) # <<>>)
                   \/ after.i = after.max_retries
     IN gen' = IF left THEN ReturnResult(after) ELSE after
  /\ UNCHANGED exceptGen

GenNext ==
  \/ \E m \in 1..MaxRetries : GenStart(m)
  \/ \E o \in LlmOutcomes : GenRound(o)

SpecGeneration == Init /\ [][GenNext]_<<vars, outside>>

\* ---------------------------------------------------------- evaluation run
\* all_tasks[chunk_start : chunk_start + CHUNK_SIZE], as positions
ChunkTasks(chunk_start) ==
  {t \in QaTasks : chunk_start < t /\ t <= chunk_start + CHUNK_SIZE}

\* asyncio.gather(*chunk_tasks): the coroutines of the chunk become tasks
\* of the event loop
Gathered(tasks_, chunk_start) ==
  [t \in QaTasks |->
     IF t \in ChunkTasks(chunk_start) THEN "queued" ELSE tasks_[t]]

InProgress == {t \in QaTasks : qa[t] = "running"}

\* faulty variant: the tasks do not wait for a permit
PermitNotNeeded == TRUE

\* asyncio.Semaphore(MAX_CONCURRENT): a permit is free
PermitFree == Cardinality(InProgress) < MAX_CONCURRENT

\* the results of the chunk that are no exception and belong to group g, in
\* the order of the tasks
RECURSIVE ResultsOf(_, _, _)
ResultsOf(g, from, to) ==
  IF from > to THEN <<>>
  ELSE (IF qa[from] = "returned" /\ TaskGroupId(from) = g
        THEN <<from>> ELSE <<>>) \o ResultsOf(g, from + 1, to)

\* the chunk loop is entered: the first chunk is gathered
RunStart ==
  /\ mainLoop.pc = "start"
  /\ qa' = Gathered(qa, 0)
  /\ mainLoop' = [mainLoop EXCEPT !.pc = "gathering"]
  /\ UNCHANGED allResponses
  /\ UNCHANGED exceptRun

\* process_qa_with_semaphore: the task gets a permit and process_qa begins
Acquire(t) ==
  /\ qa[t] = "queued"
  /\ PermitFree
  /\ qa' = [qa EXCEPT ![t] = "running"]
  /\ UNCHANGED <<mainLoop, allResponses>>
  /\ UNCHANGED exceptRun

\* process_qa returns: the permit is given back, the task ends with
\* (group_id, result)
ProcessQaReturns(t) ==
  /\ qa[t] = "running"
  /\ qa' = [qa EXCEPT ![t] = "returned"]
  /\ UNCHANGED <<mainLoop, allResponses>>
  /\ UNCHANGED exceptRun

\* process_qa raises: the permit is given back, the task ends with the
\* exception
ProcessQaRaises(t) ==
  /\ qa[t] = "running"
  /\ qa' = [qa EXCEPT ![t] = "raised"]
  /\ UNCHANGED <<mainLoop, allResponses>>
  /\ UNCHANGED exceptRun

\* gather returns when every task of the chunk has ended: exceptions are
\* counted, results appended to the list of their group, and the next chunk
\* is gathered or the loop ends
Collect ==
  /\ mainLoop.pc = "gathering"
  /\ \A t \in ChunkTasks(mainLoop.chunk_start) : qa[t] \in {"returned", "raised"}
  /\ LET chunk == ChunkTasks(mainLoop.chunk_start)
         next_start == mainLoop.chunk_start + CHUNK_SIZE
     IN /\ allResponses' =
             [g \in GroupIds |->
                allResponses[g] \o
                  ResultsOf(g, mainLoop.chunk_start + 1,
                            Min(next_start, NumQa))]
        /\ mainLoop' =
             [pc |-> IF next_start < NumQa THEN "gathering" ELSE "finished",
              chunk_start |-> next_start,
              completed |-> mainLoop.completed + Cardinality(chunk),
              failed |-> mainLoop.failed
                           + Cardinality({t \in chunk : qa[t] = "raised"})]
        /\ qa' = IF next_start < NumQa THEN Gathered(qa, next_start) ELSE qa
  /\ UNCHANGED exceptRun

RunNext ==
  \/ RunStart
  \/ \E t \in QaTasks : Acquire(t)
  \/ \E t \in QaTasks : ProcessQaReturns(t)
  \/ \E t \in QaTasks : ProcessQaRaises(t)
  \/ Collect

SpecRun == Init /\ [][RunNext]_<<vars, outside>>

\* ----------------------------------------------------------------- typing
TypeOK ==
  /\ pc \in {"idle", "fetching", "enriching", "done", "cancelled"}
  /\ body \in Bodies \cup ScopeBodies \cup FaultBodies \cup {NoBody}
  /\ vec.st \in {"idle", "pending", "ok", "failed", "cancelled"}
  /\ lex.st \in {"idle", "pending", "ok", "failed", "cancelled"}
  /\ unresolved \in MissingSets
  /\ resp.status \in {"none", "ok", "error"}

\* ================================================================ claims
\* what the caller asked for, read off the JSON body with the documented
\* defaults (top_k 20, retrieval_mode rrf)
AskedTopK == IF body.top_k = Absent THEN 20 ELSE body.top_k[1]

AskedMode == IF body.retrieval_mode = Absent THEN "rrf" ELSE body.retrieval_mode[1]

Succeeded == pc = "done" /\ resp.status = "ok"

Memories == resp.result.memories

MemIds == [i \in 1..Len(Memories) |-> Memories[i].record_id]

IdsOf(list) == {list[i] : i \in 1..Len(list)}

FirstRank(list, id) ==
  CHOOSE r \in 0..Len(list) :
    IF id \in IdsOf(list)
    THEN r > 0 /\ list[r] = id /\ \A j \in 1..(r - 1) : list[j] # id
    ELSE r = 0

\* the ranking of a single source restricted to the records returned: each
\* returned id once, in the order of its first rank, with the raw score of
\* that rank
NativeRanking(origin, list, returned) ==
  LET ranked == SelectSeq(FirstSeen(list, {}), LAMBDA id : id \in returned)
  IN [i \in 1..Len(ranked) |->
       [record_id |-> ranked[i],
        score |-> RawScore(origin, FirstRank(list, ranked[i]))]]

\* C1: every successful response holds at most top_k memories, whatever the
\* mode and the fetcher outcomes.
C1_AtMostTopK == Succeeded => Len(Memories) <= AskedTopK

\* C1 witness: a successful rrf response cut down to exactly top_k entries
\* from a longer fused list.
C1_Witness ==
  /\ Succeeded
  /\ AskedMode = "rrf"
  /\ Len(fused) > AskedTopK
  /\ Len(Memories) = AskedTopK

\* C2: no two entries of result.memories of a successful response share a
\* record_id, also when an id is in both candidate lists or twice in one.
C2_UniqueRecordIds ==
  Succeeded =>
    \A i, j \in 1..Len(Memories) :
      Memories[i].record_id = Memories[j].record_id => i = j

\* C2 witness: a successful embedding response with two memories whose
\* fetcher returned one of them twice.
C2_Witness ==
  /\ Succeeded
  /\ AskedMode = "embedding"
  /\ Len(vec.list) > Cardinality(IdsOf(vec.list))
  /\ Len(Memories) = 2

\* rrf was asked for, fusion has run and neither fetcher failed
RrfBothOk ==
  /\ AskedMode = "rrf"
  /\ pc \in {"enriching", "done"}
  /\ raised = NoException
  /\ vec.st # "failed"
  /\ lex.st # "failed"

\* 1/(k + rank) on the integer scale of the model, 0 for rank 0
Reciprocal(rank) == IF rank = 0 THEN 0 ELSE ScoreScale \div (60 + rank)

\* C3: in rrf mode with both fetchers succeeding, the fused list holds every
\* id of either list once, each with score sum of 1/(60 + source_rank) over
\* the lists containing it, sorted by descending score; embedding ranks
\* A,B,C and lexical ranks C,A,D fuse to A,C,B,D.
C3_RrfScoresAndOrder ==
  RrfBothOk =>
    /\ {fused[i].id : i \in 1..Len(fused)} = IdsOf(vec.list) \cup IdsOf(lex.list)
    /\ Len(fused) = Cardinality(IdsOf(vec.list) \cup IdsOf(lex.list))
    /\ \A i \in 1..Len(fused) :
         fused[i].score = Reciprocal(FirstRank(vec.list, fused[i].id))
                            + Reciprocal(FirstRank(lex.list, fused[i].id))
    /\ \A i, j \in 1..Len(fused) : i < j => fused[i].score >= fused[j].score
    /\ (vec.list = <<"A", "B", "C">> /\ lex.list = <<"C", "A", "D">>) =>
          [i \in 1..Len(fused) |-> fused[i].id] = <<"A", "C", "B", "D">>

\* C3 witness: the example lists answered in full, in the order A,C,B,D.
C3_Witness ==
  /\ Succeeded
  /\ RrfBothOk
  /\ vec.list = <<"A", "B", "C">>
  /\ lex.list = <<"C", "A", "D">>
  /\ MemIds = <<"A", "C", "B", "D">>

\* the fused order of 4.5 as a strict order on hits
StrictlyBefore(a, b) ==
  IF a.score # b.score THEN a.score > b.score
  ELSE IF a.minrank # b.minrank THEN a.minrank < b.minrank
  ELSE IdOrd(a.id) < IdOrd(b.id)

C5_SingleSourceNative ==
  /\ (Succeeded /\ AskedMode = "embedding") =>
        Memories = NativeRanking("vector", vec.list, IdsOf(MemIds))
  /\ (Succeeded /\ AskedMode = "bm25") =>
        Memories = NativeRanking("lexical", lex.list, IdsOf(MemIds))

\* C5 witness: a successful bm25 response with two memories.
C5_Witness ==
  /\ Succeeded
  /\ AskedMode = "bm25"
  /\ Len(Memories) = 2
  /\ Memories[1].score = RawScore("lexical", 1)

\* the manager got past validation and dispatched
Dispatched == pc # "idle" /\ raised.type # "ValueError"

\* C6: the mode alone decides the fetchers: embedding invokes only the
\* Vector Fetcher, bm25 only the Lexical Fetcher, rrf both, each once; a
\* fetcher the mode does not select is never invoked.
C6_FetchersByMode ==
  /\ (pc # "idle" /\ AskedMode = "embedding") =>
        calls.lexical = 0 /\ lex.st = "idle"
  /\ (pc # "idle" /\ AskedMode = "bm25") =>
        calls.vector = 0 /\ calls.embedding = 0 /\ vec.st = "idle"
  /\ Dispatched =>
        /\ calls.vector = (IF AskedMode \in {"embedding", "rrf"} THEN 1 ELSE 0)
        /\ calls.lexical = (IF AskedMode \in {"bm25", "rrf"} THEN 1 ELSE 0)

\* C6 witness: an embedding request answered with the Vector Fetcher invoked
\* once and the Lexical Fetcher never.
C6_Witness ==
  /\ Succeeded
  /\ AskedMode = "embedding"
  /\ calls.vector = 1
  /\ calls.lexical = 0
  /\ Len(Memories) > 0

\* rrf was asked for and exactly one fetcher failed while the other succeeded
OneFetcherFailed ==
  /\ AskedMode = "rrf"
  /\ \/ vec.st = "failed" /\ lex.st = "ok"
     \/ vec.st = "ok" /\ lex.st = "failed"

\* C7: in rrf mode with exactly one fetcher failed the request succeeds,
\* metadata.degraded is true with the failed origin recorded, and the
\* memories are the other fetcher's own ranking by raw_score.
C7_DegradedSingleSource ==
  OneFetcherFailed =>
    /\ resp.status # "error"
    /\ pc = "done" =>
         /\ resp.status = "ok"
         /\ resp.result.metadata.degraded
         /\ resp.result.metadata.failed_origin
              = (IF vec.st = "failed" THEN "vector" ELSE "lexical")
         /\ Memories =
              (IF vec.st = "failed"
               THEN NativeRanking("lexical", lex.list, IdsOf(MemIds))
               ELSE NativeRanking("vector", vec.list, IdsOf(MemIds)))

\* C7 witness: the lexical fetcher failed, the vector fetcher ranked two
\* records and the degraded response lists them in that order.
C7_Witness ==
  /\ Succeeded
  /\ AskedMode = "rrf"
  /\ lex.st = "failed"
  /\ vec.st = "ok"
  /\ resp.result.metadata.degraded
  /\ Len(Memories) = 2

\* every fetcher the asked mode requires has failed
RequiredFetchersFailed ==
  \/ AskedMode = "rrf" /\ vec.st = "failed" /\ lex.st = "failed"
  \/ AskedMode = "embedding" /\ vec.st = "failed"
  \/ AskedMode = "bm25" /\ lex.st = "failed"

QueryEmpty == body.query \in {Absent, Some("")}

\* C9: a request without a query, or with an empty one, is refused with the
\* client error of a ValueError before any collaborator is called.
C9_EmptyQueryRejected ==
  (pc # "idle" /\ QueryEmpty) =>
    /\ pc = "done"
    /\ raised.type = "ValueError"
    /\ resp.status = "error"
    /\ resp.http = 400
    /\ calls = NoCalls
    /\ vec.st = "idle"
    /\ lex.st = "idle"

\* C9 witness: query "" got the 400 with no collaborator called.
C9_Witness ==
  /\ pc = "done"
  /\ body.query = Some("")
  /\ body.retrieval_mode = Some("rrf")
  /\ resp.http = 400
  /\ calls.manager = 0

\* the request states a top_k of 0 or less
TopKNonPositive == IF body.top_k = Absent THEN FALSE ELSE body.top_k[1] <= 0

AskedSource == IF body.data_source = Absent THEN "memcell" ELSE body.data_source[1]

AskedScope == IF body.memory_scope = Absent THEN "all" ELSE body.memory_scope[1]

AskedRange == IF body.time_range_days = Absent THEN 365 ELSE body.time_range_days[1]

NoFetcherInvoked ==
  /\ calls.embedding = 0
  /\ calls.vector = 0
  /\ calls.lexical = 0
  /\ vec.st = "idle"
  /\ lex.st = "idle"

AskedPartitions ==
  {<<AskedSource, p>> :
     p \in (IF AskedScope = "all" THEN {"personal", "group"} ELSE {AskedScope})}

Candidates == IdsOf(vec.list) \cup IdsOf(lex.list) \cup IdsOf(MemIds)

\* C12: the partitions are fixed when the fetchers are dispatched: both
\* partitions of the data source for scope all, the named one for personal or
\* group; every record of a candidate list and of result.memories lies in a
\* selected partition of the chosen data source.
C12_OnlySelectedPartitions ==
  /\ vec.st # "idle" => vec.filter.partitions = AskedPartitions
  /\ lex.st # "idle" => lex.filter.partitions = AskedPartitions
  /\ \A id \in Candidates : <<SourceOf(id), PartitionOf(id)>> \in AskedPartitions

\* C12 witness: a successful rrf request of scope personal that returned two
\* personal records, while the group partition of the same data source holds
\* records that rank higher.
C12_Witness ==
  /\ Succeeded
  /\ AskedMode = "rrf"
  /\ AskedScope = "personal"
  /\ AskedSource = "memcell"
  /\ Len(Memories) = 2
  /\ vec.filter = lex.filter

\* record ids a request returns when both indexes answer and the document
\* store resolves every survivor
CleanIds(r) ==
  LET f == Descriptor(r)
      v == VectorSearch(f, PoolSize(r.top_k))
      l == LexicalSearch(f, PoolSize(r.top_k))
      ranked == IF r.retrieval_mode = "rrf" THEN RrfFuse(v, l)
                ELSE IF r.retrieval_mode = "embedding" THEN PassThrough("vector", v)
                ELSE PassThrough("lexical", l)
      kept == Truncate(DedupHits(ranked, {}), r.top_k)
  IN {kept[i].id : i \in 1..Len(kept)}

\* neither a candidate pool nor top_k cut anything off
NothingTruncated ==
  /\ Len(vec.list) < PoolSize(req.top_k)
  /\ Len(lex.list) < PoolSize(req.top_k)
  /\ Len(fused) <= req.top_k

\* C13: for the same query, data source, mode and filters, the record ids
\* returned with scope all are the union of those returned with scope
\* personal and with scope group whenever nothing is truncated, and always lie
\* within the union of the untruncated personal and group results.
C13_ScopeAllIsUnion ==
  (Succeeded /\ AskedScope = "all" /\ degraded = "" /\ unresolved = {}) =>
    LET personal == [req EXCEPT !.memory_scope = "personal"]
        group == [req EXCEPT !.memory_scope = "group"]
    IN /\ NothingTruncated =>
            IdsOf(MemIds) = CleanIds(personal) \cup CleanIds(group)
       /\ IdsOf(MemIds) \subseteq
            CleanIds([personal EXCEPT !.top_k = DefaultTopK])
              \cup CleanIds([group EXCEPT !.top_k = DefaultTopK])

\* C13 witness: an untruncated rrf answer of scope all that holds a personal
\* and a group record.
C13_Witness ==
  /\ Succeeded
  /\ AskedMode = "rrf"
  /\ body.memory_scope = Absent
  /\ degraded = ""
  /\ unresolved = {}
  /\ NothingTruncated
  /\ \E i, j \in 1..Len(Memories) :
       /\ PartitionOf(Memories[i].record_id) = "personal"
       /\ PartitionOf(Memories[j].record_id) = "group"

\* C14: a record older than now - time_range_days is in no candidate list and
\* in no result, whatever its rank, the mode and the scope.
C14_NothingOutOfTimeRange ==
  \A id \in Candidates : TimestampOf(id) >= 0 - AskedRange

\* C14 witness: an rrf answer over both memcell partitions with the default
\* range; the best match of both indexes is older than the range and is
\* left out.
C14_Witness ==
  /\ Succeeded
  /\ AskedMode = "rrf"
  /\ AskedSource = "memcell"
  /\ AskedScope = "all"
  /\ body.time_range_days = Absent
  /\ body.user_id = Absent
  /\ body.group_id = Absent
  /\ TimestampOf(VecOrder[1]) < 0 - AskedRange
  /\ SourceOf(VecOrder[1]) = "memcell"
  /\ Len(Memories) >= 2

\* C15: the user_id of the request reaches every dispatched fetcher
\* unchanged, and every candidate and every returned memory belongs to that
\* user.
C15_UserFilterRespected ==
  body.user_id # Absent =>
    /\ vec.st # "idle" => vec.filter.user_id = body.user_id
    /\ lex.st # "idle" => lex.filter.user_id = body.user_id
    /\ \A id \in Candidates : UserOf(id) = body.user_id[1]

\* C15 witness: an rrf answer for user u2 over both memcell partitions, where
\* records of u1 match everything else.
C15_Witness ==
  /\ Succeeded
  /\ AskedMode = "rrf"
  /\ body.user_id = Some("u2")
  /\ AskedSource = "memcell"
  /\ AskedScope = "all"
  /\ vec.filter.user_id = Some("u2")
  /\ lex.filter.user_id = Some("u2")
  /\ Len(Memories) >= 1

\* C16: in rrf mode both fetches are started together and are in flight at
\* the same time, and the step that fuses is taken only when each of them has
\* completed or failed, in either order of arrival.
C16_FusionAfterBothFetches ==
  [][/\ (pc = "idle" /\ pc' = "fetching" /\ AskedMode' = "rrf") =>
          vec'.st = "pending" /\ lex'.st = "pending"
     /\ (pc = "fetching" /\ pc' \in {"enriching", "done"} /\ AskedMode = "rrf") =>
          /\ vec.st \in {"ok", "failed"}
          /\ lex.st \in {"ok", "failed"}
          /\ Len(arrival) = 2
          /\ vec' = vec /\ lex' = lex]_vars

\* C16 witness: the lexical fetch failed first, the vector fetch completed
\* second, and only then the manager fused.
C16_Witness ==
  /\ pc = "enriching"
  /\ AskedMode = "rrf"
  /\ arrival = <<"lexical", "vector">>
  /\ lex.st = "failed"
  /\ vec.st = "ok"
  /\ fused # <<>>

\* C17: when the caller cancels while fetches are in flight, every fetch in
\* flight is cancelled; from then on nothing is fused, enriched or assembled
\* and no response, in particular none from a partial fetch, is returned.
C17_CancelStopsEverything ==
  [][/\ pc' = "cancelled" =>
          /\ vec'.st \in {"idle", "cancelled"} /\ vec'.list = <<>>
          /\ lex'.st \in {"idle", "cancelled"} /\ lex'.list = <<>>
          /\ fused' = <<>> /\ hits' = <<>>
          /\ calls'.docstore = 0
          /\ resp' = NoResponse
     /\ pc = "cancelled" => pc' = "cancelled"]_vars

\* C17 witness: an rrf request cancelled after one of its two fetches had come
\* in.
C17_Witness ==
  /\ pc = "cancelled"
  /\ AskedMode = "rrf"
  /\ Len(arrival) = 1
  /\ vec.st = "cancelled"
  /\ lex.st = "cancelled"

HitIds == [i \in 1..Len(hits) |-> hits[i].id]

\* C18: a survivor the document store cannot resolve is dropped; the request
\* still succeeds, and the remaining records keep their order and scores.
C18_EnrichmentMissDropsRecord ==
  (pc = "done" /\ calls.docstore > 0) =>
    /\ resp.status = "ok"
    /\ resp.http = 200
    /\ raised = NoException
    /\ unresolved \subseteq IdsOf(HitIds)
    /\ MemIds = SelectSeq(HitIds, LAMBDA id : id \notin unresolved)
    /\ \A i \in 1..Len(Memories) : \E j \in 1..Len(hits) :
         hits[j].id = Memories[i].record_id /\ hits[j].score = Memories[i].score

\* C18 witness: the second of three survivors was not resolved and the other
\* two were returned.
C18_Witness ==
  /\ Succeeded
  /\ Len(hits) = 3
  /\ unresolved = {hits[2].id}
  /\ MemIds = <<hits[1].id, hits[3].id>>

OnlyQueryStated ==
  /\ body.top_k = Absent
  /\ body.time_range_days = Absent
  /\ body.retrieval_mode = Absent
  /\ body.data_source = Absent
  /\ body.memory_scope = Absent

\* the same body with the default values written out
StatedDefaults(source) ==
  [body EXCEPT !.top_k = Some(20), !.time_range_days = Some(365),
               !.retrieval_mode = Some("rrf"), !.data_source = Some(source),
               !.memory_scope = Some("all")]

\* C20 as stated: a request that omits the optional fields is processed with
\* top_k 20, time_range_days 365, retrieval_mode rrf, data_source episode and
\* memory_scope all, as the request that states these values.
C20_DefaultSourceEpisode ==
  (calls.manager > 0 /\ OnlyQueryStated) =>
    /\ req.top_k = 20
    /\ req.time_range_days = 365
    /\ req.retrieval_mode = "rrf"
    /\ req.data_source = "episode"
    /\ req.memory_scope = "all"
    /\ req = ManagerArgs(StatedDefaults("episode"))

\* C20, amended: a request that omits the optional fields is processed with
\* top_k 20, time_range_days 365, retrieval_mode rrf, data_source memcell and
\* memory_scope all, and the manager receives what it receives from the
\* request that states these values.
C20_DefaultsApplied ==
  (calls.manager > 0 /\ OnlyQueryStated) =>
    /\ req.top_k = 20
    /\ req.time_range_days = 365
    /\ req.retrieval_mode = "rrf"
    /\ req.data_source = "memcell"
    /\ req.memory_scope = "all"
    /\ req = ManagerArgs(StatedDefaults("memcell"))

\* C20 witness: a request with the query alone was answered with memories.
C20_Witness ==
  /\ Succeeded
  /\ OnlyQueryStated
  /\ Len(Memories) >= 1

C23_AtMostOneRetry ==
  [][/\ vec'.attempts <= 2
     /\ lex'.attempts <= 2
     /\ vec.st \in {"ok", "failed", "cancelled"} => vec'.attempts = vec.attempts
     /\ lex.st \in {"ok", "failed", "cancelled"} => lex'.attempts = lex.attempts
     /\ (vec.attempts = 2 /\ vec' # vec) => vec'.st \in {"ok", "failed", "cancelled"}
     /\ (lex.attempts = 2 /\ lex' # lex) => lex'.st \in {"ok", "failed", "cancelled"}]_vars

\* C23 witness: an embedding request whose fetcher failed at its second call
\* and which was answered with an error.
C23_Witness ==
  /\ pc = "done"
  /\ AskedMode = "embedding"
  /\ vec.attempts = 2
  /\ vec.st = "failed"
  /\ resp.status = "error"
  /\ raised.type = vec.err

\* C24: every exception of the handler reaches the caller as an error: a
\* ValueError as HTTP 400 with its message, an HTTPException with its own
\* status and detail, any other exception as HTTP 500 with the fixed message;
\* no response with status ok follows an exception.
C24_ErrorMapping ==
  /\ (raised # NoException /\ raised.type # "CancelledError") =>
       /\ pc = "done"
       /\ resp.status = "error"
       /\ resp.result = NoResult
       /\ raised.type = "ValueError" => resp.http = 400 /\ resp.detail = raised.msg
       /\ raised.type = "HTTPException" =>
            resp.http = raised.code /\ resp.detail = raised.msg
       /\ raised.type \notin {"ValueError", "HTTPException"} =>
            resp.http = 500 /\ resp.detail = "retrieve failed, retry later"
  /\ resp.status = "ok" => raised = NoException

\* C24 witness: the awaited manager raised an HTTPException with status 503
\* and the caller received 503 with its detail.
C24_Witness ==
  /\ pc = "done"
  /\ calls.manager = 1
  /\ raised.type = "HTTPException"
  /\ raised.code = 503
  /\ resp.http = 503
  /\ resp.detail = "unavailable"

\* C25: metadata.degraded is true exactly in a successful rrf response in
\* which one of the two fetchers failed and the other succeeded; it is false
\* in every successful embedding or bm25 response and in every rrf response
\* whose fetchers both succeeded.
C25_DegradedOnlyOnRrfFallback ==
  Succeeded =>
    /\ resp.result.metadata.degraded =>
         /\ AskedMode = "rrf"
         /\ \/ vec.st = "failed" /\ lex.st = "ok"
            \/ vec.st = "ok" /\ lex.st = "failed"
    /\ AskedMode \in {"embedding", "bm25"} => ~resp.result.metadata.degraded
    /\ (AskedMode = "rrf" /\ vec.st = "ok" /\ lex.st = "ok") =>
         ~resp.result.metadata.degraded

\* C25 witness: a successful rrf response flagged degraded after the vector
\* fetch failed and the lexical fetch returned three candidates.
C25_Witness ==
  /\ Succeeded
  /\ AskedMode = "rrf"
  /\ vec.st = "failed"
  /\ lex.st = "ok"
  /\ Len(lex.list) = 3
  /\ resp.result.metadata.degraded
  /\ resp.result.metadata.failed_origin = "vector"

\* the response a request with body b gets when it is handled alone and its
\* backends answer with v and l
AloneResponse(b, v, l) ==
  IF EarlyError(b) # NoException THEN ExceptionResponse(EarlyError(b))
  ELSE Assemble(ManagerArgs(b), Fetched("vector", ManagerArgs(b), v),
                Fetched("lexical", ManagerArgs(b), l))

\* C21: under every interleaving of the requests, the response of each
\* request (memories, order, scores, count, degraded flag) is the response it
\* gets when handled alone with the same backend answers; nothing another
\* request computed shows in it.
C21_RequestsIndependent ==
  \A r \in Requests :
    answer[r] # NoResponse =>
      answer[r] = AloneResponse(sent[r], backend[r].vector, backend[r].lexical)

\* C21 witness: two requests with different bodies were handled at the same
\* time and both answered with memories, one of them degraded.
C21_Witness ==
  /\ overlap
  /\ sent[1] # sent[2]
  /\ answer[1].status = "ok"
  /\ answer[2].status = "ok"
  /\ answer[1].result.metadata.degraded
  /\ answer[1].result.count > 0
  /\ answer[2].result.count > 0

\* no stop is under way: neither one scheduled by start_refresh nor a
\* stop_refresh that waits for its loop
GaugeQuiet ==
  /\ \A t \in TaskIds : stops[t] \notin {"scheduled", "awaiting"}
  /\ \A c \in Stoppers : stoppers[c].pc # "awaiting"

LoopsOf(k) == {t \in TaskIds : tasks[t].key = k /\ LoopRuns(t)}

\* C26: for each label key, once the stops under way have finished, at most
\* one refresh loop runs for the key and a running loop is the task
\* registered under the key; and when stop_refresh was the last call to
\* complete for the key, no loop runs for it and nothing is registered.
C26_OneRegisteredLoopPerKey ==
  \A k \in LabelKeys :
    /\ GaugeQuiet =>
         /\ Cardinality(LoopsOf(k)) <= 1
         /\ \A t \in LoopsOf(k) : registry[k] = t
    /\ GaugeQuiet /\ lastCall[k] = "stop" =>
         /\ LoopsOf(k) = {}
         /\ registry[k] = NoTask

\* C27: a round of the loop that fails adds one to the error count, leaves
\* the gauge as it was and the loop goes on; a round that succeeds sets the
\* gauge and leaves the error count at 0; the loop ends only when it was
\* cancelled or _running was off; a task whose stop() returned no longer has
\* a loop that refreshes, and no gauge is set by such a task.
C27_LoopSurvivesFailures ==
  [][/\ \A t \in TaskIds :
          /\ tasks'[t].errors # tasks[t].errors =>
               IF tasks'[t].errors = tasks[t].errors + 1
               THEN gauge' = gauge /\ tasks'[t].loop = "sleeping"
               ELSE /\ tasks'[t].errors = 0
                    /\ lastSetBy'[tasks[t].key] = t
                    /\ tasks'[t].loop = "sleeping"
          /\ tasks[t].loop # "done" /\ tasks'[t].loop = "done" =>
               tasks[t].loop = "cancelling" \/ ~tasks[t].running
          /\ tasks'[t].stopped => ~LoopRuns(t)'
     /\ \A k \in LabelKeys :
          gauge'[k] # gauge[k] \/ lastSetBy'[k] # lastSetBy[k] =>
            /\ lastSetBy'[k] \in TaskIds
            /\ tasks[lastSetBy'[k]].key = k
            /\ tasks[lastSetBy'[k]].running
            /\ ~tasks[lastSetBy'[k]].stopped
            /\ tasks'[lastSetBy'[k]].errors = 0
            /\ gauge'[k] \in GaugeValues]_gaugeVars

\* C27 witness: a loop that set the gauge and then failed MaxErrors times in
\* a row still runs, the gauge keeps the value it set, and another task was
\* stopped and its loop has ended.
C27_Witness ==
  \E t, u \in TaskIds :
    /\ LoopRuns(t)
    /\ tasks[t].loop = "sleeping"
    /\ tasks[t].errors = MaxErrors
    /\ lastSetBy[tasks[t].key] = t
    /\ gauge[tasks[t].key] \in GaugeValues
    /\ tasks[u].stopped
    /\ tasks[u].loop = "done"

\* C28: a finished request whose path is not skipped incremented
\* http_requests_total exactly once and made one duration observation, under
\* the status code of the response when the handler returned and under '500'
\* when it raised, the exception going on to the caller; a request on a
\* skipped path recorded nothing.
C28_EveryRequestCountedOnce ==
  \A r \in HttpRequests :
    dispatches[r].pc = "done" =>
      IF dispatches[r].path \in SKIP_PATHS
      THEN dispatches[r].incs = <<>> /\ dispatches[r].observed = 0
      ELSE /\ Len(dispatches[r].incs) = 1
           /\ dispatches[r].observed = 1
           /\ dispatches[r].outcome \in {"returned", "HandlerError"}
           /\ dispatches[r].incs[1] =
                IF dispatches[r].outcome = "returned"
                THEN Str(dispatches[r].code) ELSE "500"

\* generate returned a text that holds an answer
GaveAnswer(o) == ~o.raises /\ ParseAnswer(o.text) # <<>>

\* C29: locomo_response calls generate at most max_retries times and never
\* again after the first answer that is not empty; it goes on to the next
\* call when a call raised or gave an empty answer; and it ends by returning
\* a string, whatever the outcomes of the calls were.
C29_AnswerWithinRetries ==
  /\ gen.i <= gen.max_retries
  /\ Len(gen.outcomes) = gen.i
  /\ \A k \in 1..(Len(gen.outcomes) - 1) : ~GaveAnswer(gen.outcomes[k])
  /\ gen.pc \notin {"idle", "looping"} /\ gen.i < gen.max_retries =>
       GaveAnswer(gen.outcomes[gen.i])
  /\ gen.pc \notin {"idle", "looping"} =>
       gen.pc = "returned" /\ gen.result # Absent

\* the chunk a task belongs to
ChunkOf(t) == (t - 1) \div CHUNK_SIZE

\* how often the result of task t stands in the list of group g
TimesAppended(t, g) ==
  Cardinality({i \in 1..Len(allResponses[g]) : allResponses[g][i] = t})

\* the results of the chunk of task t have been collected
Collected(t) == mainLoop.chunk_start >= (ChunkOf(t) + 1) * CHUNK_SIZE

\* C30: at most MAX_CONCURRENT process_qa calls are in progress; no task of
\* a chunk has started while a task of an earlier chunk has not ended; once
\* a chunk is collected every task of it that raised is counted as failed
\* and every task that returned has its result exactly once in the list of
\* its own group and in no other; a task that raised stops no other task.
C30_ChunkedBoundedRun ==
  /\ Cardinality(InProgress) <= MAX_CONCURRENT
  /\ \A t, u \in QaTasks :
       ChunkOf(t) < ChunkOf(u) /\ qa[u] # "created" =>
         qa[t] \in {"returned", "raised"}
  /\ \A t \in QaTasks, g \in GroupIds :
       TimesAppended(t, g) =
         IF Collected(t) /\ qa[t] = "returned" /\ g = TaskGroupId(t)
         THEN 1 ELSE 0
  /\ mainLoop.failed =
       Cardinality({t \in QaTasks : Collected(t) /\ qa[t] = "raised"})
  /\ mainLoop.completed = Cardinality({t \in QaTasks : Collected(t)})
  /\ mainLoop.pc = "finished" => \A t \in QaTasks : Collected(t)

\* C30 witness: the run finished over two chunks, a task of the first chunk
\* raised, and the tasks that returned filled the lists of both groups.
C30_Witness ==
  /\ mainLoop.pc = "finished"
  /\ NumQa > CHUNK_SIZE
  /\ CHUNK_SIZE > MAX_CONCURRENT
  /\ qa[1] = "raised"
  /\ mainLoop.failed = 1
  /\ \A g \in GroupIds : allResponses[g] # <<>>

====
